---- MODULE Spec2Model ----
(***************************************************************************)
(* Network namespace manager (guest/gce_network/network_namespace_manager) *)
(* as a state machine.  Callers invoke CreateNetworkNamespace,             *)
(* GetNamespaceDescriptor and SwitchNamespace; every system call of a      *)
(* caller is one step, so that concurrent callers interleave at            *)
(* system-call granularity.  A cloned holder process runs its entry        *)
(* routine in one step, at any time after the Clone that started it.       *)
(*                                                                         *)
(* Environment assumptions (code outside this repository's sources):       *)
(*  - SysClient::Clone always returns a handle of a live child process;    *)
(*  - symlink(2) fails when the destination exists and may fail for other  *)
(*    reasons; write(2) may be short; Umount, Mount, Socket, IoCtl,        *)
(*    Unshare and SetNs may fail;                                          *)
(*  - open(O_CREAT|O_EXCL) fails exactly when the path exists, and         *)
(*    open(O_RDONLY) fails exactly when the path does not resolve          *)
(*    (the root folder exists: New() created it).                          *)
(***************************************************************************)
EXTENDS Naturals, Integers, Sequences, FiniteSets, TLC

\* ------------------------------------------------------------------ bounds
\* Longest namespace name the callers pass.
MaxNameLen == 1
\* Longest name GetNamespacePath is studied on as a function.
MaxPathLen == 3
\* Most arguments an invocation handed to SerialPreset carries.
MaxArgs == 3
\* Number of concurrent callers of the manager.
NumProcs == 2
\* Number of Clone calls (holder processes) in a run.
MaxClones == 2
\* Number of SwitchNamespace calls in a run (each unshares once).
MaxSwitches == 2
\* Pid the first cloned holder gets (so that pids of one and two digits occur).
FirstPid == 9

\* --------------------------------------------------------------- constants
kNamespaces == <<"mnt", "net", "ipc">>
kCloneNewNS == {"mnt"}
kCloneNewNet == {"net"}
kCloneNewIPC == {"ipc"}
kNamespaceTypes == kCloneNewNS \cup kCloneNewNet \cup kCloneNewIPC

\* isalnum(3) over the characters of the model.
AlnumChars == {"a", "B", "7"}
isalnum(c) == c \in AlnumChars

\* Characters the callers' names are made of.
NameChars == {"a", "_", "."}

RECURSIVE SeqsOfLen(_, _)
SeqsOfLen(S, n) ==
  IF n = 0 THEN {<<>>}
  ELSE {Append(s, c) : s \in SeqsOfLen(S, n - 1), c \in S}

Names == UNION {SeqsOfLen(NameChars, n) : n \in 1..MaxNameLen}

\* The names GetNamespacePath is studied on: alphanumerics and punctuation.
PathChars == AlnumChars \cup {"_", "."}
PathNames == UNION {SeqsOfLen(PathChars, n) : n \in 0..MaxPathLen}

Procs == 1..NumProcs
Pids == FirstPid..(FirstPid + MaxClones - 1)

\* ----------------------------------------------------------- pure helpers
\* Mutant: the isalnum test inverted.
SanitizeCharInverted(c) == IF isalnum(c) THEN "_" ELSE c

\* The loop body of GetNamespacePath: one character of new_name.
SanitizeChar(c) == IF isalnum(c) THEN c ELSE "_"

\* GetNamespacePath: <kNetNsFolder>/<new_name>.<type>.  The folder is fixed
\* and a type holds no '.', so a path is the pair <<stem, type>>.
GetNamespacePath(ns_name, type) ==
  <<[index \in 1..Len(ns_name) |-> SanitizeChar(ns_name[index])], type>>

\* glob_ns_file.PrintF("/var/run/netns/%s.%s", ns_name.c_str(), type)
GlobNsFile(ns_name, type) == <<ns_name, type>>

\* proc_ns_file.PrintF("/proc/%d/ns/%s", handle->Pid(), type)
ProcNsFile(pid, type) == <<pid, type>>

Digit(d) == CASE d = 0 -> "0" [] d = 1 -> "1" [] d = 2 -> "2" [] d = 3 -> "3"
              [] d = 4 -> "4" [] d = 5 -> "5" [] d = 6 -> "6" [] d = 7 -> "7"
              [] d = 8 -> "8" [] d = 9 -> "9"

\* proc_ns_file.PrintF("%d", handle->Pid())
RECURSIVE PrintFd(_)
PrintFd(n) == IF n < 10 THEN <<Digit(n)>>
              ELSE Append(PrintFd(n \div 10), Digit(n % 10))

\* ------------------------------------------------------------------ state
VARIABLES
  fs,         \* /var/run/netns: path -> symlink or regular file
  holder,     \* pid -> the holder process cloned with that pid
  nextPid,    \* pid the next Clone returns
  proc,       \* caller -> the call it is in and that call's locals
  ns,         \* caller -> the namespace of each kind it is in
  nextNs,     \* number of unshare calls that made new namespaces
  createLog,  \* history: the CreateNetworkNamespace calls that returned
  everCalled, \* history: names CreateNetworkNamespace was invoked with
  manager,    \* what NetworkNamespaceManager::New returned, and how
  resolved,   \* the last path GetNamespacePath was asked for, and its result
  serial      \* the last request SerialPreset::Handle got, and what it did

vars == <<fs, holder, nextPid, proc, ns, nextNs, createLog, everCalled,
          manager, resolved, serial>>

Symlink(target) == [type |-> "symlink", target |-> target, data |-> <<>>]
File(data) == [type |-> "file", target |-> <<>>, data |-> data]

InitNs == [k \in kNamespaceTypes |-> <<"init", 0>>]

\* A caller outside any call.  ret is the bool a call returned, netns the
\* descriptor of GetNamespaceDescriptor / the one SwitchNamespace holds;
\* tried lists the system calls of the call's loop as <<type, call, ok>>;
\* existed and nsAtCall record the state the call found.
Idle == [pc |-> "idle", op |-> "none", name |-> <<>>, index |-> 0, pid |-> 0,
         ret |-> FALSE, netns |-> -1, tried |-> <<>>, fds |-> {},
         existed |-> FALSE, unshared |-> FALSE, nsAtCall |-> InitNs,
         new_namespace |-> FALSE, is_paranoid |-> FALSE]

\* A caller can start a call: it is in none (the result of its last call,
\* if any, stays in its record until it starts the next).
Ready(p) == manager.inst = "live" /\ proc[p].pc \in {"idle", "done"}

Range(s) == {s[i] : i \in 1..Len(s)}
\* The types for which a call of the loop succeeded.
Succeeded(tried, call) == {t[1] : t \in {u \in Range(tried) : u[2] = call /\ u[3]}}

\* A holder process is alive until NetworkNamespaceProcess returns.
Alive(pid) == pid \in DOMAIN holder /\ holder[pid].st # "exited"

\* Mutant: open() does not follow the symlink.
ResolvesDangling(path) == path \in DOMAIN fs

\* open(path, O_RDONLY) follows the symlink into /proc/<pid>/ns/<type>.
Resolves(path) ==
  /\ path \in DOMAIN fs
  /\ \/ fs[path].type = "file"
     \/ fs[path].type = "symlink" /\ Alive(fs[path].target[1])

\* Lowest descriptor number the caller has free (0, 1, 2 are the stdio).
FirstFd == 3
NewFd(p) == CHOOSE fd \in FirstFd..(FirstFd + Cardinality(proc[p].fds)) :
              fd \notin proc[p].fds

\* ------------------------------------------ NetworkNamespaceManager::New
\* Mutant: the result of CreateNamespaceRootFolder is not tested.
NewResultUnchecked(has_client, mkdirs_ok) ==
  IF ~has_client THEN "null" ELSE "live"

\* What New returns: NULL without a sys_client or when
\* CreateNamespaceRootFolder fails, else the new manager.
NewResult(has_client, mkdirs_ok) ==
  IF ~has_client THEN "null"
  ELSE IF ~mkdirs_ok THEN "null" ELSE "live"

\* The gce_fs_mkdirs calls New makes (through CreateNamespaceRootFolder).
MkdirsByNew(has_client) == IF has_client THEN 1 ELSE 0

\* The record of a call of New: the instance, the arguments and results.
Constructed(has_client, mkdirs_ok) ==
  [inst |-> NewResult(has_client, mkdirs_ok), client |-> has_client,
   mkdirs |-> MkdirsByNew(has_client), mkdirs_ok |-> mkdirs_ok]

\* No call of New yet.
NotConstructed ==
  [inst |-> "none", client |-> FALSE, mkdirs |-> 0, mkdirs_ok |-> FALSE]

\* No path resolved yet.
NotResolved == [ns_name |-> <<>>, type |-> "", path |-> <<>>]

\* Everything but the manager, before any call.
\* SerialPreset before any request.
NoRequest ==
  [invocation |-> [command |-> "", arguments |-> <<>>],
   executed |-> <<>>, result |-> "none"]

InitRest ==
  /\ fs = <<>>
  /\ holder = <<>>
  /\ nextPid = FirstPid
  /\ proc = [p \in Procs |-> Idle]
  /\ ns = [p \in Procs |-> InitNs]
  /\ nextNs = 0
  /\ createLog = {}
  /\ everCalled = {}
  /\ resolved = NotResolved
  /\ serial = NoRequest

\* The state after New(sys_client) returned a manager.
Init ==
  /\ InitRest
  /\ manager = Constructed(TRUE, TRUE)

\* The state before New is called.
InitNew ==
  /\ InitRest
  /\ manager = NotConstructed

\* NetworkNamespaceManager::New(sys_client)
New(has_client, mkdirs_ok) ==
  /\ manager.inst = "none"
  /\ manager' = Constructed(has_client, mkdirs_ok)
  /\ UNCHANGED <<fs, holder, nextPid, proc, ns, nextNs, createLog, everCalled,
                 resolved, serial>>

\* ------------------------------------------------ CreateNetworkNamespace
\* Mutant: the new_namespace test dropped.
CloneFlagsAll(new_namespace) == kNamespaceTypes

\* The clone flags: new_namespace ? kNamespaceTypes : kCloneNewNS.
CloneFlags(new_namespace) ==
  IF new_namespace THEN kNamespaceTypes ELSE kCloneNewNS

\* The process SysClient::Clone starts: it runs NetworkNamespaceProcess in
\* new namespaces of the kinds in flags and in the parent's other namespaces.
NewHolder(p, pid, flags, is_paranoid) ==
  [st |-> "started", paranoid |-> is_paranoid, flags |-> flags,
   nsof |-> [k \in kNamespaceTypes |->
               IF k \in flags THEN <<"clone", pid>> ELSE ns[p][k]],
   status |-> 0, calls |-> <<>>]

\* CreateNetworkNamespace, entry and the Clone call.
CreateClone(p, ns_name, new_namespace, is_paranoid) ==
  /\ Ready(p)
  /\ nextPid \in Pids
  /\ holder' = (nextPid :> NewHolder(p, nextPid, CloneFlags(new_namespace),
                                     is_paranoid)) @@ holder
  /\ nextPid' = nextPid + 1
  /\ proc' = [proc EXCEPT ![p] =
       [Idle EXCEPT !.pc = "symlink", !.op = "create", !.name = ns_name,
                    !.index = 1, !.pid = nextPid,
                    !.existed = GlobNsFile(ns_name, "process") \in DOMAIN fs,
                    !.nsAtCall = ns[p], !.new_namespace = new_namespace,
                    !.is_paranoid = is_paranoid]]
  /\ everCalled' = everCalled \cup {ns_name}
  /\ UNCHANGED <<fs, ns, nextNs, createLog,
               manager, resolved, serial>>

\* symlink(proc_ns_file, glob_ns_file) < 0: the destination exists (EEXIST)
\* or the environment refuses.
SymlinkFails(fsx, dst, env_ok) == dst \in DOMAIN fsx \/ ~env_ok

\* Mutant: the destination is replaced when it exists (unlink, then symlink).
BindNamespaceForce(fsx, src, dst, env_ok) ==
  IF ~env_ok THEN fsx ELSE (dst :> Symlink(src)) @@ fsx

\* The registry after the body of the symlink loop for one type.
BindNamespace(fsx, src, dst, env_ok) ==
  IF SymlinkFails(fsx, dst, env_ok) THEN fsx
  ELSE (dst :> Symlink(src)) @@ fsx

\* Mutant: a failed symlink ends the call.
AfterSymlinkAbort(index, ok) ==
  IF ~ok THEN [pc |-> "done", index |-> index]
  ELSE IF index < Len(kNamespaces) THEN [pc |-> "symlink", index |-> index + 1]
  ELSE [pc |-> "openpid", index |-> index]

\* The symlink loop: where the call goes after the body for index.
AfterSymlink(index, ok) ==
  IF index < Len(kNamespaces) THEN [pc |-> "symlink", index |-> index + 1]
  ELSE [pc |-> "openpid", index |-> index]

\* One iteration of the symlink loop of CreateNetworkNamespace.
CreateSymlink(p, env_ok) ==
  /\ proc[p].pc = "symlink"
  /\ LET type == kNamespaces[proc[p].index]
         src == ProcNsFile(proc[p].pid, type)
         dst == GlobNsFile(proc[p].name, type)
         ok == ~SymlinkFails(fs, dst, env_ok)
         next == AfterSymlink(proc[p].index, ok)
     IN /\ fs' = BindNamespace(fs, src, dst, env_ok)
        /\ proc' = [proc EXCEPT ![p].tried = Append(@, <<type, "symlink", ok>>),
                                ![p].pc = next.pc, ![p].index = next.index]
  /\ UNCHANGED <<holder, nextPid, ns, nextNs, createLog, everCalled,
               manager, resolved, serial>>

\* Mutant: the pid file is opened without O_EXCL.
OpenPidFileNoExcl(fsx, path) == TRUE

\* open(glob_ns_file, O_RDWR | O_CREAT | O_EXCL, 0) >= 0
OpenPidFileOk(fsx, path) == path \notin DOMAIN fsx

LogEntry(p, ret) ==
  [name |-> proc[p].name, pid |-> proc[p].pid, ret |-> ret,
   made |-> Succeeded(proc[p].tried, "symlink")]

\* Mutant: when the pid file cannot be created the call kills the holder it
\* cloned and removes the symlinks it made.
CreateOpenPidCleanup(p) ==
  /\ proc[p].pc = "openpid"
  /\ LET path == GlobNsFile(proc[p].name, "process")
         mine == {GlobNsFile(proc[p].name, t) :
                    t \in Succeeded(proc[p].tried, "symlink")}
     IN IF OpenPidFileOk(fs, path)
        THEN /\ fs' = (path :> File(<<>>)) @@ fs
             /\ proc' = [proc EXCEPT ![p].pc = "write",
                                     ![p].fds = @ \cup {NewFd(p)},
                                     ![p].tried =
                                       Append(@, <<"process", "open", TRUE>>)]
             /\ UNCHANGED <<createLog, holder>>
        ELSE /\ proc' = [proc EXCEPT ![p].pc = "done", ![p].ret = FALSE,
                                     ![p].tried =
                                       Append(@, <<"process", "open", FALSE>>)]
             /\ createLog' = createLog \cup {LogEntry(p, FALSE)}
             /\ fs' = [f \in DOMAIN fs \ mine |-> fs[f]]
             /\ holder' = [holder EXCEPT ![proc[p].pid].st = "exited"]
  /\ UNCHANGED <<nextPid, ns, nextNs, everCalled, manager, resolved, serial>>

\* The exclusive create of the pid-record file.
CreateOpenPid(p) ==
  /\ proc[p].pc = "openpid"
  /\ LET path == GlobNsFile(proc[p].name, "process")
     IN IF OpenPidFileOk(fs, path)
        THEN /\ fs' = (path :> File(<<>>)) @@ fs
             /\ proc' = [proc EXCEPT ![p].pc = "write",
                                     ![p].fds = @ \cup {NewFd(p)},
                                     ![p].tried =
                                       Append(@, <<"process", "open", TRUE>>)]
             /\ UNCHANGED createLog
        ELSE /\ proc' = [proc EXCEPT ![p].pc = "done", ![p].ret = FALSE,
                                     ![p].tried =
                                       Append(@, <<"process", "open", FALSE>>)]
             /\ createLog' = createLog \cup {LogEntry(p, FALSE)}
             /\ UNCHANGED fs
  /\ UNCHANGED <<holder, nextPid, ns, nextNs, everCalled,
               manager, resolved, serial>>

\* What CreateNetworkNamespace returns once the pid file is open, given the
\* count write() returned and proc_ns_file.size().
ReturnAfterWrite(written, size) == TRUE

\* write(pid_fd, "%d" of the pid), close(pid_fd), return.
CreateWrite(p, written) ==
  /\ proc[p].pc = "write"
  /\ written \in 0..Len(PrintFd(proc[p].pid))
  /\ LET path == GlobNsFile(proc[p].name, "process")
         text == PrintFd(proc[p].pid)
         ret == ReturnAfterWrite(written, Len(text))
     IN /\ fs' = [fs EXCEPT ![path] = File(SubSeq(text, 1, written))]
        /\ proc' = [proc EXCEPT ![p].pc = "done", ![p].ret = ret,
                                ![p].fds = {},
                                ![p].tried = Append(@, <<"process", "write",
                                                        written = Len(text)>>)]
        /\ createLog' = createLog \cup {LogEntry(p, ret)}
  /\ UNCHANGED <<holder, nextPid, ns, nextNs, everCalled,
               manager, resolved, serial>>

\* ------------------------------------------------ GetNamespaceDescriptor
\* The value GetNamespaceDescriptor returns: the descriptor open() gave or -1.
GetReturn(opened, fd) == IF opened THEN fd ELSE -1

\* GetNamespaceDescriptor: resolve the "net" path, open it, return.
GetNamespaceDescriptor(p, ns_name) ==
  /\ Ready(p)
  /\ LET ns_path == GetNamespacePath(ns_name, "net")
         opened == Resolves(ns_path)
         netns == GetReturn(opened, NewFd(p))
     IN proc' = [proc EXCEPT ![p] =
          [Idle EXCEPT !.pc = "done", !.op = "get", !.name = ns_name,
                       !.netns = netns,
                       !.fds = IF opened THEN {netns} ELSE {},
                       !.nsAtCall = ns[p]]]
  /\ UNCHANGED <<fs, holder, nextPid, ns, nextNs, createLog, everCalled,
               manager, resolved, serial>>

\* ------------------------------------------------------- SwitchNamespace
\* The flags SwitchNamespace passes to Unshare.
UnshareFlags == kNamespaceTypes

\* SwitchNamespace, entry and the Unshare call (its result is dropped).
SwitchUnshare(p, ns_name, ok) ==
  /\ Ready(p)
  /\ nextNs < MaxSwitches
  /\ nextNs' = nextNs + 1
  /\ ns' = [ns EXCEPT ![p] =
       [k \in kNamespaceTypes |->
          IF ok /\ k \in UnshareFlags THEN <<"unshare", nextNs>> ELSE ns[p][k]]]
  /\ proc' = [proc EXCEPT ![p] =
       [Idle EXCEPT !.pc = "sw_open", !.op = "switch", !.name = ns_name,
                    !.index = 1, !.unshared = ok, !.nsAtCall = ns[p]]]
  /\ UNCHANGED <<fs, holder, nextPid, createLog, everCalled,
               manager, resolved, serial>>

\* open(ns_path, O_RDONLY) of the loop of SwitchNamespace.
SwitchOpen(p) ==
  /\ proc[p].pc = "sw_open"
  /\ LET type == kNamespaces[proc[p].index]
         ns_path == GetNamespacePath(proc[p].name, type)
         opened == Resolves(ns_path)
         netns == GetReturn(opened, NewFd(p))
     IN proc' = [proc EXCEPT
          ![p].tried = Append(@, <<type, "open", opened>>),
          ![p].netns = netns,
          ![p].fds = IF opened THEN @ \cup {netns} ELSE @,
          ![p].pc = IF opened THEN "sw_setns" ELSE "done",
          ![p].ret = FALSE]
  /\ UNCHANGED <<fs, holder, nextPid, ns, nextNs, createLog, everCalled,
               manager, resolved, serial>>

\* Mutant: the result of SetNs is not tested.
AfterSetNsUnchecked(index, ok) ==
  IF index < Len(kNamespaces)
  THEN [pc |-> "sw_open", index |-> index + 1, ret |-> FALSE, close |-> TRUE]
  ELSE [pc |-> "done", index |-> index, ret |-> TRUE, close |-> TRUE]

\* The loop of SwitchNamespace after SetNs returned: fail, go on or finish.
AfterSetNs(index, ok) ==
  IF ~ok THEN [pc |-> "done", index |-> index, ret |-> FALSE, close |-> FALSE]
  ELSE IF index < Len(kNamespaces)
       THEN [pc |-> "sw_open", index |-> index + 1, ret |-> FALSE, close |-> TRUE]
       ELSE [pc |-> "done", index |-> index, ret |-> TRUE, close |-> TRUE]

\* SetNs(netns, 0) and close(netns) of the loop of SwitchNamespace.
SwitchSetNs(p, ok) ==
  /\ proc[p].pc = "sw_setns"
  /\ LET type == kNamespaces[proc[p].index]
         ns_path == GetNamespacePath(proc[p].name, type)
         target == fs[ns_path].target
         next == AfterSetNs(proc[p].index, ok)
     IN /\ ns' = IF ok THEN [ns EXCEPT ![p][target[2]] =
                                holder[target[1]].nsof[target[2]]]
                 ELSE ns
        /\ proc' = [proc EXCEPT
             ![p].tried = Append(@, <<type, "setns", ok>>),
             ![p].fds = IF next.close THEN @ \ {proc[p].netns} ELSE @,
             ![p].pc = next.pc, ![p].index = next.index, ![p].ret = next.ret]
  /\ UNCHANGED <<fs, holder, nextPid, nextNs, createLog, everCalled,
               manager, resolved, serial>>

\* ----------------------------------------------- NetworkNamespaceProcess
\* Descriptors Socket() may return (-1: failure; 0 when stdin is closed).
SocketResults == {-1, 0, 3}

\* The test the holder makes on the descriptor Socket() returned.
SocketUsable(netsocketfd) == netsocketfd > 0

\* Mutant: a failed Umount is logged and the routine goes on.
HolderCallsUmountIgnored(is_paranoid, umount_ok, mount_ok, netsocketfd, ioctl_ok) ==
  << <<"Umount", IF umount_ok THEN 0 ELSE -1>> >>
  \o (IF ~mount_ok THEN << <<"Mount", -1>> >>
      ELSE << <<"Mount", 0>> >>
           \o (IF is_paranoid
               THEN << <<"Socket", netsocketfd>> >>
                    \o (IF netsocketfd > 0
                        THEN << <<"IoCtl", IF ioctl_ok THEN 0 ELSE -1>> >>
                        ELSE <<>>)
               ELSE <<>>)
           \o << <<"setsid", 0>>, <<"pause", 0>> >>)

\* The system calls NetworkNamespaceProcess makes, in order, as
\* <<call, result>>, given what each call returns when it is made.
HolderCalls(is_paranoid, umount_ok, mount_ok, netsocketfd, ioctl_ok) ==
  IF ~umount_ok THEN << <<"Umount", -1>> >>
  ELSE IF ~mount_ok THEN << <<"Umount", 0>>, <<"Mount", -1>> >>
  ELSE << <<"Umount", 0>>, <<"Mount", 0>> >>
       \o (IF is_paranoid
           THEN << <<"Socket", netsocketfd>> >>
                \o (IF SocketUsable(netsocketfd)
                    THEN << <<"IoCtl", IF ioctl_ok THEN 0 ELSE -1>> >>
                    ELSE <<>>)
           ELSE <<>>)
       \o << <<"setsid", 0>>, <<"pause", 0>> >>

\* Where NetworkNamespaceProcess ends up: blocked in pause() or returned 1.
HolderEnd(calls) ==
  IF calls[Len(calls)][1] = "pause"
  THEN [st |-> "pause", status |-> 0]
  ELSE [st |-> "exited", status |-> 1]

\* NetworkNamespaceProcess in the cloned process h, up to pause() or return.
\* Its calls touch only the holder's own mounts and descriptors, so the
\* routine is one step for the callers.
NetworkNamespaceProcess(h, umount_ok, mount_ok, netsocketfd, ioctl_ok) ==
  /\ h \in DOMAIN holder /\ holder[h].st = "started"
  /\ LET calls == HolderCalls(holder[h].paranoid, umount_ok, mount_ok,
                              netsocketfd, ioctl_ok)
         end == HolderEnd(calls)
     IN holder' = [holder EXCEPT ![h].st = end.st, ![h].status = end.status,
                                 ![h].calls = calls]
  /\ UNCHANGED <<fs, nextPid, proc, ns, nextNs, createLog, everCalled,
               manager, resolved, serial>>

\* A call of GetNamespacePath on its own, with its result kept.
ResolvePath(ns_name, type) ==
  /\ manager.inst = "live"
  /\ resolved' = [ns_name |-> ns_name, type |-> type,
                  path |-> GetNamespacePath(ns_name, type)]
  /\ UNCHANGED <<fs, holder, nextPid, proc, ns, nextNs, createLog, everCalled,
                 manager, serial>>

\* ---------------------------------------------------------- specification
\* <<new_namespace, is_paranoid>> as callers may pass them.
AllFlags == BOOLEAN \X BOOLEAN
\* ---------------------------------------------------------- SerialPreset
\* The commands and argument words of the invocations ParseInvocation
\* yields: the handler's command and another, the preset names and others.
Commands == {"experimental", "start"}
ArgWords == {"create_phone_tablet", "create_phone_wear", "--daemon",
             "serial_launch"}
Invocations ==
  [command : Commands,
   arguments : UNION {SeqsOfLen(ArgWords, n) : n \in 0..MaxArgs}]

\* Presets(): preset name -> the devices of the preset, in order.
Presets ==
  ("create_phone_tablet" :> << "git_master/cf_x86_64_phone-userdebug",
                               "git_master/cf_x86_64_tablet-userdebug" >>)
  @@ ("create_phone_wear" :> << "git_master/cf_x86_64_phone-userdebug",
                                "git_master/cf_gwear_x86" >>)

\* SerialPreset::CanHandle on the parsed invocation of the request.
CanHandle(invocation) ==
  /\ invocation.command = "experimental"
  /\ Len(invocation.arguments) >= 1
  /\ invocation.arguments[1] \in DOMAIN Presets

\* The loop over the devices of the preset: "--device=" + device.
DeviceArgs(devices) ==
  [i \in 1..Len(devices) |-> "--device=" \o devices[i]]

\* Mutant: the copy of the arguments starts at the preset name (i = 0).
InnerArgsFromZero(arguments) ==
  <<"cvd", "experimental", "serial_launch">>
  \o DeviceArgs(Presets[arguments[1]])
  \o arguments

\* The args of the inner request: cvd experimental serial_launch, the
\* devices, then arguments[1..] of the invocation (0-based).
InnerArgs(arguments) ==
  <<"cvd", "experimental", "serial_launch">>
  \o DeviceArgs(Presets[arguments[1]])
  \o SubSeq(arguments, 2, Len(arguments))

\* SerialPreset::Handle on a request that parses to invocation, where
\* executor_.Execute answers execute_ok.
Handle(invocation, execute_ok) ==
  /\ serial' =
       IF ~CanHandle(invocation)
       THEN [invocation |-> invocation, executed |-> <<>>, result |-> "error"]
       ELSE [invocation |-> invocation,
             executed |-> << InnerArgs(invocation.arguments) >>,
             result |-> IF execute_ok THEN "ok" ELSE "error"]
  /\ UNCHANGED <<fs, holder, nextPid, proc, ns, nextNs, createLog, everCalled,
                 manager, resolved>>

\* What the environment may answer to symlink(): refuse or not.
AnySymlink == BOOLEAN
NoSymlinkFault == {TRUE}
\* By how many bytes write() may fall short.
AnyWrite == 0..2
FullWrite == {0}

\* The steps of CreateNetworkNamespace calls by callers P with names N and
\* flags F, where symlink() answers from E and write() is short by some D.
CreateSteps(P, N, F, E, D) ==
  \/ \E p \in P, ns_name \in N, f \in F : CreateClone(p, ns_name, f[1], f[2])
  \/ \E p \in P, env_ok \in E : CreateSymlink(p, env_ok)
  \/ \E p \in P : CreateOpenPid(p)
  \/ \E p \in P, d \in D :
        /\ proc[p].pc = "write"
        /\ d <= Len(PrintFd(proc[p].pid))
        /\ CreateWrite(p, Len(PrintFd(proc[p].pid)) - d)

\* GetNamespaceDescriptor calls by callers P with names N.
GetSteps(P, N) ==
  \E p \in P, ns_name \in N : GetNamespaceDescriptor(p, ns_name)

\* The steps of SwitchNamespace calls by callers P with names N.
SwitchSteps(P, N) ==
  \/ \E p \in P, ns_name \in N, ok \in BOOLEAN : SwitchUnshare(p, ns_name, ok)
  \/ \E p \in P : SwitchOpen(p)
  \/ \E p \in P, ok \in BOOLEAN : SwitchSetNs(p, ok)

\* The holder processes, with every outcome of their system calls.
HolderSteps ==
  \E h \in Pids, umount_ok \in BOOLEAN, mount_ok \in BOOLEAN,
     netsocketfd \in SocketResults, ioctl_ok \in BOOLEAN :
     NetworkNamespaceProcess(h, umount_ok, mount_ok, netsocketfd, ioctl_ok)

\* The holder processes, with a working socket and ioctl and a /sys that
\* detaches: the holder blocks, or exits on the failed mount.
HolderStepsMount ==
  \E h \in Pids, mount_ok \in BOOLEAN :
     NetworkNamespaceProcess(h, TRUE, mount_ok, 3, TRUE)

\* Every caller, every operation, every name, every fault.
Next ==
  \/ CreateSteps(Procs, Names, AllFlags, AnySymlink, AnyWrite)
  \/ GetSteps(Procs, Names)
  \/ SwitchSteps(Procs, Names)
  \/ HolderSteps

Spec == Init /\ [][Next]_vars

\* One caller making its calls one after the other.
OneCaller == {1}

\* A caller that creates namespaces and takes descriptors, and the holders.
NextSeq ==
  \/ CreateSteps(OneCaller, Names, AllFlags, NoSymlinkFault, AnyWrite)
  \/ GetSteps(OneCaller, Names)
  \/ HolderStepsMount

SpecSeq == Init /\ [][NextSeq]_vars

\* A caller that creates namespaces with failing symlinks.
NextBind ==
  \/ CreateSteps(OneCaller, Names, {<<TRUE, FALSE>>}, AnySymlink, AnyWrite)
  \/ GetSteps(OneCaller, Names)
  \/ HolderStepsMount

SpecBind == Init /\ [][NextBind]_vars

\* A caller that creates namespaces and switches into them, and the holders.
NextSwitch ==
  \/ CreateSteps(OneCaller, Names, {<<TRUE, FALSE>>, <<FALSE, FALSE>>},
                 NoSymlinkFault, FullWrite)
  \/ SwitchSteps(OneCaller, Names)
  \/ HolderStepsMount

SpecSwitch == Init /\ [][NextSwitch]_vars

\* The names that resolve to the path of "_": a collision.
CollidingNames == {n \in Names : GetNamespacePath(n, "net") = <<(<<"_">>), "net">>}

\* Concurrent callers that create colliding names and take descriptors.
NextRace ==
  \/ CreateSteps(Procs, CollidingNames, {<<TRUE, FALSE>>}, AnySymlink, FullWrite)
  \/ GetSteps(Procs, CollidingNames)
  \/ HolderStepsMount

SpecRace == Init /\ [][NextRace]_vars

\* The caller that also takes descriptors and switches.
Switcher == {NumProcs}

\* Concurrent creates of colliding names, with one of the callers also
\* taking descriptors and switching namespaces between its creates.
NextAll ==
  \/ CreateSteps(Procs, CollidingNames, {<<TRUE, FALSE>>}, NoSymlinkFault,
                 FullWrite)
  \/ GetSteps(Switcher, CollidingNames)
  \/ SwitchSteps(Switcher, CollidingNames)
  \/ HolderStepsMount

SpecAll == Init /\ [][NextAll]_vars

\* Construction, then one caller of all three operations.
NextNew ==
  \/ \E has_client \in BOOLEAN, mkdirs_ok \in BOOLEAN : New(has_client, mkdirs_ok)
  \/ CreateSteps(OneCaller, CollidingNames, {<<TRUE, FALSE>>}, NoSymlinkFault,
                 FullWrite)
  \/ GetSteps(OneCaller, CollidingNames)
  \/ SwitchSteps(OneCaller, CollidingNames)
  \/ HolderStepsMount

SpecNew == InitNew /\ [][NextNew]_vars

\* A caller that creates namespaces, and holders whose system calls answer
\* in every way.
NextHolder ==
  \/ CreateSteps(OneCaller, Names, AllFlags, NoSymlinkFault, FullWrite)
  \/ HolderSteps

SpecHolder == Init /\ [][NextHolder]_vars

\* GetNamespacePath as a function, on every name and type.
NextPath ==
  \E ns_name \in PathNames, type \in kNamespaceTypes : ResolvePath(ns_name, type)

SpecPath == Init /\ [][NextPath]_vars

\* SerialPreset handling requests of every invocation, one after the other.
NextSerial ==
  \E invocation \in Invocations, execute_ok \in BOOLEAN :
    Handle(invocation, execute_ok)

SpecSerial == Init /\ [][NextSerial]_vars

\* ================================================================ claims
\* Two names resolve to one stem: equal length, and at every index the same
\* character or two characters that are both not alphanumeric.
SameStem(m, n) ==
  /\ Len(m) = Len(n)
  /\ \A i \in 1..Len(m) : m[i] = n[i] \/ (~isalnum(m[i]) /\ ~isalnum(n[i]))

\* A create of n returned true with all three symlinks made, and the holder
\* it cloned is alive.
CreatedWhole(n) ==
  \E e \in createLog :
    e.name = n /\ e.ret /\ e.made = kNamespaceTypes /\ Alive(e.pid)

\* C1: whenever CreateNetworkNamespace(name) returned true with all three
\* symlinks created and its holder is alive, a GetNamespaceDescriptor(name)
\* that follows returns a descriptor >= 0, for every name.
C1_GetAfterCreateIsValid ==
  [][\A p \in Procs, n \in Names :
       (GetNamespaceDescriptor(p, n) /\ CreatedWhole(n))
         => proc'[p].netns >= 0]_vars

Creating(p) == proc[p].op = "create"
Switching(p) == proc[p].op = "switch"
Getting(p) == proc[p].op = "get"
Done(p) == proc[p].pc = "done"

\* C2: a CreateNetworkNamespace call that found the pid-record file of its
\* name already created returns false, whatever its flags.
C2_LaterCreateFails ==
  \A p \in Procs : (Creating(p) /\ Done(p) /\ proc[p].existed) => ~proc[p].ret

\* A second create of a name returned false because the pid file existed.
C2_Witness ==
  \E p \in Procs :
    /\ Creating(p) /\ Done(p) /\ proc[p].existed /\ ~proc[p].ret
    /\ \E e \in createLog : e.name = proc[p].name /\ e.ret
    /\ holder[proc[p].pid].paranoid /\ holder[proc[p].pid].flags = kNamespaceTypes

\* The calls of CreateNetworkNamespace(n) that returned true.
Winners(n) == {e \in createLog : e.name = n /\ e.ret}
\* A CreateNetworkNamespace(n) call is under way.
InFlight(n) ==
  \E p \in Procs : Creating(p) /\ ~Done(p) /\ proc[p].name = n

\* C3: of the CreateNetworkNamespace calls for one name, in any interleaving
\* of their steps, at most one returns true, and once all of them have
\* returned exactly one has returned true.
C3_ExactlyOneWinner ==
  \A n \in Names :
    /\ Cardinality(Winners(n)) <= 1
    /\ (n \in everCalled /\ ~InFlight(n)) => Cardinality(Winners(n)) = 1

\* Two creates of one name overlapped (the loser found no pid file when it
\* started): one returned true, the other false.
C3_Witness ==
  \E p, q \in Procs :
    /\ p # q /\ Creating(p) /\ Creating(q) /\ Done(p) /\ Done(q)
    /\ proc[p].name = proc[q].name
    /\ proc[p].ret /\ ~proc[q].ret /\ ~proc[q].existed /\ ~proc[p].existed

\* C4: whenever CreateNetworkNamespace has returned true, the pid-record file
\* of the name holds the full decimal pid of the holder.
C4_TrueOnlyIfPidWritten ==
  \A e \in createLog :
    e.ret => fs[GlobNsFile(e.name, "process")].data = PrintFd(e.pid)

\* The namespace a persisted handle of ns_name leads to.
TargetNs(ns_name, type) ==
  LET target == fs[GetNamespacePath(ns_name, type)].target
  IN holder[target[1]].nsof[target[2]]

\* C5: SwitchNamespace opens and enters the kinds in the order mnt, net, ipc,
\* stops at the first open or SetNs that fails, keeps the kinds it entered,
\* and returns true exactly when all three opens and SetNs calls succeeded,
\* whatever Unshare returned.
C5_SwitchOrderAndAbort ==
  \A p \in Procs : Switching(p) =>
    LET tried == proc[p].tried
        n == Len(tried)
    IN /\ n <= 2 * Len(kNamespaces)
       /\ \A i \in 1..n :
            /\ tried[i][1] = kNamespaces[(i + 1) \div 2]
            /\ tried[i][2] = (IF i % 2 = 1 THEN "open" ELSE "setns")
            /\ (~tried[i][3]) => (i = n /\ Done(p) /\ ~proc[p].ret)
       /\ Done(p) =>
            (proc[p].ret <=> (n = 2 * Len(kNamespaces)
                              /\ \A i \in 1..n : tried[i][3]))
       /\ \A k \in kNamespaceTypes :
            IF k \in Succeeded(tried, "setns")
            THEN ns[p][k] = TargetNs(proc[p].name, k)
            ELSE IF proc[p].unshared /\ k \in UnshareFlags
                 THEN ns[p][k][1] = "unshare"
                 ELSE ns[p][k] = proc[p].nsAtCall[k]

\* A switch whose Unshare failed entered mnt, then failed at net's SetNs and
\* returned false, still in the holder's mount namespace.
C5_Witness ==
  \E p \in Procs :
    /\ Switching(p) /\ Done(p) /\ ~proc[p].ret /\ ~proc[p].unshared
    /\ proc[p].tried = << <<"mnt", "open", TRUE>>, <<"mnt", "setns", TRUE>>,
                          <<"net", "open", TRUE>>, <<"net", "setns", FALSE>> >>
    /\ ns[p]["mnt"] # proc[p].nsAtCall["mnt"]
    /\ ns[p]["net"] = proc[p].nsAtCall["net"]

\* C6: SwitchNamespace of a name CreateNetworkNamespace was never called with
\* returns false and leaves the caller in the namespaces it was in.
C6_SwitchUnknownChangesNothing ==
  \A p \in Procs :
    (Switching(p) /\ Done(p) /\ proc[p].name \notin everCalled)
      => (~proc[p].ret /\ ns[p] = proc[p].nsAtCall)

\* C7: CreateNetworkNamespace attempts the three symlinks in the order mnt,
\* net, ipc whichever of them fail, then performs the pid-record step, and
\* returns true when that step succeeds.
C7_SymlinkFailureTolerated ==
  \A p \in Procs : Creating(p) =>
    LET tried == proc[p].tried
        n == Len(tried)
    IN /\ \A i \in 1..n :
            IF i <= Len(kNamespaces)
            THEN tried[i][1] = kNamespaces[i] /\ tried[i][2] = "symlink"
            ELSE tried[i][1] = "process"
       /\ Done(p) => n > Len(kNamespaces)
       /\ Done(p) /\ (\A i \in (Len(kNamespaces) + 1)..n : tried[i][3])
            => proc[p].ret

\* A create whose mnt and ipc symlinks failed still made the net symlink and
\* the pid file, and returned true.
C7_Witness ==
  \E p \in Procs :
    /\ Creating(p) /\ Done(p) /\ proc[p].ret
    /\ Succeeded(proc[p].tried, "symlink") = {"net"}
    /\ GlobNsFile(proc[p].name, "mnt") \notin DOMAIN fs
    /\ GlobNsFile(proc[p].name, "net") \in DOMAIN fs
    /\ fs[GlobNsFile(proc[p].name, "process")].data = PrintFd(proc[p].pid)

\* C8: a path of the registry is never removed, keeps its type, and a
\* symlink keeps its target, in every step of every caller.
C8_RegistryAppendOnly ==
  [][\A path \in DOMAIN fs :
       /\ path \in DOMAIN fs'
       /\ fs'[path].type = fs[path].type
       /\ fs'[path].target = fs[path].target]_vars

\* A create met the symlink another create of the name had made (its own
\* symlink failed) while a concurrent caller was inside SwitchNamespace.
C8_Witness ==
  \E p, q \in Procs :
    /\ p # q /\ Creating(p) /\ Switching(q) /\ ~Done(q)
    /\ \E i \in 1..Len(proc[p].tried) :
         /\ proc[p].tried[i] = <<"net", "symlink", FALSE>>
         /\ fs[GlobNsFile(proc[p].name, "net")].target[1] # proc[p].pid

\* C9: GetNamespaceDescriptor of a name CreateNetworkNamespace was never
\* called with returns -1.
C9_GetUnknownFails ==
  \A p \in Procs :
    (Getting(p) /\ Done(p) /\ proc[p].name \notin everCalled)
      => proc[p].netns = -1

\* CreateNetworkNamespace was never called with a name of the stem of n.
NoCreateForStem(n) == \A m \in everCalled : ~SameStem(m, n)

\* C9, amended: GetNamespaceDescriptor(name) returns -1 when
\* CreateNetworkNamespace was never called with a name that resolves to the
\* stem of name, and it changes no persisted state.
C9_GetUnknownStemFails ==
  [][\A p \in Procs, n \in Names :
       GetNamespaceDescriptor(p, n)
         => /\ fs' = fs
            /\ NoCreateForStem(n) => proc'[p].netns = -1]_vars

\* A descriptor was asked for a name of a stem never created, after creates
\* of another name succeeded and left a handle that opens: it got -1.
C9_Witness ==
  \E p \in Procs :
    /\ Getting(p) /\ Done(p) /\ NoCreateForStem(proc[p].name)
    /\ proc[p].netns = -1
    /\ \E e \in createLog : e.ret /\ Resolves(GetNamespacePath(e.name, "net"))

\* C10: of two distinct names of one stem, CreateNetworkNamespace returns
\* true for at most one.
C10_CollidingCreateFails ==
  \A e1, e2 \in createLog :
    (e1.name # e2.name /\ SameStem(e1.name, e2.name)) => ~(e1.ret /\ e2.ret)

\* C11: New returns no manager when it has no sys_client or when the root
\* folder cannot be created; a manager exists only after exactly one
\* gce_fs_mkdirs call, made by New, and no operation called later makes
\* another or changes what New returned.
C11_RootFolderOnceAtConstruction ==
  /\ [](/\ manager.mkdirs <= 1
        /\ manager.inst = "live" => (manager.mkdirs = 1 /\ manager.mkdirs_ok)
        /\ manager.inst = "null"
             => (~manager.client \/ (manager.mkdirs = 1 /\ ~manager.mkdirs_ok))
        /\ (manager.client /\ manager.mkdirs_ok) => manager.inst = "live"
        /\ manager.inst # "live"
             => (fs = <<>> /\ holder = <<>> /\ \A p \in Procs : proc[p] = Idle))
  /\ [][manager.inst # "none" => manager' = manager]_vars

\* A manager made with one mkdirs call has since served creates and a
\* switch: still one mkdirs call.
C11_Witness ==
  /\ manager.inst = "live" /\ manager.mkdirs = 1
  /\ \E e \in createLog : e.ret
  /\ \E p \in Procs : Switching(p) /\ Done(p) /\ proc[p].ret

\* C12: the flags CreateNetworkNamespace passes to Clone are mnt+net+ipc when
\* new_namespace is true and mnt alone when it is false, whatever the name
\* and is_paranoid.
C12_CloneFlagsFollowNewNamespace ==
  \A p \in Procs : Creating(p) =>
    holder[proc[p].pid].flags =
      (IF proc[p].new_namespace THEN {"mnt", "net", "ipc"} ELSE {"mnt"})

\* A paranoid create without new_namespace cloned with the mount flag alone,
\* after a create of another name that cloned with all three.
C12_Witness ==
  \E p \in Procs :
    /\ Creating(p) /\ proc[p].is_paranoid /\ ~proc[p].new_namespace
    /\ holder[proc[p].pid].flags = {"mnt"}
    /\ \E h \in DOMAIN holder : holder[h].flags = {"mnt", "net", "ipc"}

\* C13: the path GetNamespacePath gives for (name, type) has a stem as long
\* as the name, made of alphanumerics and '_', with the name's
\* alphanumerics in place; resolving the stem again gives the same path; and
\* every name that differs from the name only in non-alphanumeric characters
\* resolves to the same path, for every type.
C13_PathResolution ==
  resolved # NotResolved =>
    LET n == resolved.ns_name
        stem == resolved.path[1]
    IN /\ resolved.path[2] = resolved.type
       /\ Len(stem) = Len(n)
       /\ \A i \in 1..Len(n) :
            /\ isalnum(stem[i]) \/ stem[i] = "_"
            /\ isalnum(n[i]) => stem[i] = n[i]
       /\ GetNamespacePath(stem, resolved.type) = resolved.path
       /\ \A m \in PathNames : SameStem(m, n) =>
            \A k \in kNamespaceTypes :
              GetNamespacePath(m, k) = <<stem, k>>

\* A name with an alphanumeric between two different punctuation characters
\* was resolved.
C13_Witness ==
  /\ resolved.ns_name = <<".", "a", "_">>
  /\ resolved.path = << <<"_", "a", "_">>, "net" >>

\* C14: the Unshare call that opens SwitchNamespace gives the caller a new
\* mount namespace and leaves its network and IPC namespaces as they were.
C14_UnshareOnlyMount ==
  \A p \in Procs :
    (Switching(p) /\ proc[p].tried = <<>> /\ proc[p].unshared) =>
      {k \in kNamespaceTypes : ns[p][k] # proc[p].nsAtCall[k]} = {"mnt"}

\* C20: when SwitchNamespace has returned, every descriptor the call opened
\* has been closed.
C20_SwitchLeavesNoDescriptor ==
  \A p \in Procs : (Switching(p) /\ Done(p)) => proc[p].fds = {}

\* The names of the calls a holder made.
CallNames(h) == {c[1] : c \in Range(holder[h].calls)}

\* C15: a holder that left NetworkNamespaceProcess' start called Umount
\* first and Mount only after Umount succeeded; it blocks in pause(), after
\* setsid(), exactly when both succeeded; when either failed that call was
\* its last, it exited with a non-zero status and made no Socket, IoCtl,
\* setsid or pause call; and a blocking holder never changes again.
C15_HolderBlocksIffRemounted ==
  /\ [](\A h \in DOMAIN holder : holder[h].st # "started" =>
         LET c == holder[h].calls
             n == Len(c)
         IN /\ n >= 1 /\ c[1][1] = "Umount"
            /\ c[1][2] < 0 => n = 1
            /\ n >= 2 => (c[1][2] = 0 /\ c[2][1] = "Mount")
            /\ (n >= 2 /\ c[2][2] < 0) => n = 2
            /\ holder[h].st = "pause" <=>
                 (n >= 2 /\ c[1][2] = 0 /\ c[2][2] = 0)
            /\ holder[h].st = "pause" =>
                 (c[n - 1][1] = "setsid" /\ c[n][1] = "pause")
            /\ holder[h].st # "pause" =>
                 /\ holder[h].st = "exited" /\ holder[h].status # 0
                 /\ CallNames(h) \cap {"Socket", "IoCtl", "setsid", "pause"} = {})
  /\ [][\A h \in DOMAIN holder :
         holder[h].st = "pause" => holder'[h] = holder[h]]_vars

\* One holder blocks after both calls succeeded, one exited on the failed
\* Umount, and the caller has gone on to another create.
C15_Witness ==
  /\ \E h \in DOMAIN holder :
       holder[h].st = "pause" /\ "Mount" \in CallNames(h)
  /\ \E h \in DOMAIN holder :
       holder[h].st = "exited" /\ holder[h].calls = << <<"Umount", -1>> >>
  /\ \E p \in Procs : Creating(p) /\ Done(p)

\* C16: a holder that got past the remount makes no Socket and no IoCtl call
\* when it is not paranoid; when it is paranoid it calls Socket and, for
\* every non-negative descriptor Socket returns, IoCtl; and it blocks
\* whatever the two return.
C16_ParanoidStep ==
  \A h \in DOMAIN holder :
    (holder[h].st # "started" /\ Len(holder[h].calls) > 2) =>
      LET c == holder[h].calls
      IN /\ holder[h].st = "pause"
         /\ ~holder[h].paranoid => CallNames(h) \cap {"Socket", "IoCtl"} = {}
         /\ holder[h].paranoid =>
              /\ c[3][1] = "Socket"
              /\ c[3][2] >= 0 => c[4][1] = "IoCtl"

\* The last call of an exited holder is the Umount or Mount that failed.
ExitedOnItsOwn(pid) ==
  LET c == holder[pid].calls
  IN c # <<>> /\ c[Len(c)][1] \in {"Umount", "Mount"} /\ c[Len(c)][2] < 0

\* The symlinks a finished create made are in the registry and point into
\* the holder it cloned.
SymlinksOfCallPresent(e) ==
  \A t \in e.made :
    /\ GlobNsFile(e.name, t) \in DOMAIN fs
    /\ fs[GlobNsFile(e.name, t)] = Symlink(ProcNsFile(e.pid, t))

\* C17 as stated: after a CreateNetworkNamespace call returned false the
\* holder it cloned is running and the symlinks it made are present.
C17_FailedCreateHolderRunning ==
  \A e \in createLog : ~e.ret => (Alive(e.pid) /\ SymlinksOfCallPresent(e))

\* C17, amended: every CreateNetworkNamespace call clones exactly one holder,
\* in a step that persists nothing; no step of the manager changes a holder
\* that exists, so a holder only ever changes by its own entry routine; and
\* after a call returned false the holder it cloned has not been stopped by
\* the manager (it runs unless its own Umount or Mount failed) and the
\* symlinks the call made are present.
C17_FailedCreateLeaksHolder ==
  /\ [](/\ Cardinality(DOMAIN holder) =
             Cardinality(createLog)
               + Cardinality({p \in Procs : Creating(p) /\ ~Done(p)})
        /\ \A p \in Procs : Creating(p) => proc[p].pid \in DOMAIN holder
        /\ \A e \in createLog : ~e.ret =>
             /\ e.pid \in DOMAIN holder
             /\ ~Alive(e.pid) => ExitedOnItsOwn(e.pid)
             /\ SymlinksOfCallPresent(e))
  /\ [][/\ DOMAIN holder' # DOMAIN holder => fs' = fs
        /\ \A h \in DOMAIN holder :
             /\ h \in DOMAIN holder'
             /\ holder'[h] # holder[h] =>
                  (holder[h].st = "started" /\ holder'[h].calls # <<>>)]_vars

\* A call that made a symlink returned false, and its holder blocks.
C17_Witness ==
  \E e \in createLog :
    /\ ~e.ret /\ e.made # {}
    /\ holder[e.pid].st = "pause"
    /\ SymlinksOfCallPresent(e)

\* A name GetNamespacePath leaves as it is.
Sanitized(n) == GetNamespacePath(n, "net")[1] = n

\* A create of the sanitized name n returned true and made the symlink of
\* type t, and the holder it cloned has exited.
CreatedThenHolderExited(n, t) ==
  /\ Sanitized(n)
  /\ \E e \in createLog :
       e.name = n /\ e.ret /\ t \in e.made /\ ~Alive(e.pid)

PidsOfSymlinks(n) ==
  {fs[GlobNsFile(n, t)].target[1] :
     t \in {k \in kNamespaceTypes : GlobNsFile(n, k) \in DOMAIN fs}}

\* C19: for every name, the symlinks that exist for it all point to one
\* holder, and the pid its pid file holds, once written, is that holder's.
C19_HandlesOfOneHolder ==
  \A n \in Names :
    /\ Cardinality(PidsOfSymlinks(n)) <= 1
    /\ (/\ GlobNsFile(n, "process") \in DOMAIN fs
        /\ fs[GlobNsFile(n, "process")].data # <<>>)
         => \A h \in PidsOfSymlinks(n) :
              fs[GlobNsFile(n, "process")].data = PrintFd(h)

\* C21: after SerialPreset::Handle, when the request's command is
\* "experimental" and its first argument a preset name the executor was
\* handed exactly one inner request, with the arguments cvd, experimental,
\* serial_launch, one --device=<d> per device of the preset in preset order,
\* then the request's arguments after the preset name in their order; for
\* every other request the executor was handed nothing and Handle returned
\* an error.
C21_HandleForwardsPreset ==
  serial.result # "none" =>
    LET command == serial.invocation.command
        arguments == serial.invocation.arguments
        known == /\ command = "experimental"
                 /\ arguments # <<>>
                 /\ arguments[1] \in {"create_phone_tablet", "create_phone_wear"}
    IN IF known
       THEN /\ Len(serial.executed) = 1
            /\ LET inner == serial.executed[1]
               IN /\ Len(inner) = 5 + Len(arguments) - 1
                  /\ inner[1] = "cvd"
                  /\ inner[2] = "experimental"
                  /\ inner[3] = "serial_launch"
                  /\ inner[4] = "--device=git_master/cf_x86_64_phone-userdebug"
                  /\ inner[5] =
                       (IF arguments[1] = "create_phone_tablet"
                        THEN "--device=git_master/cf_x86_64_tablet-userdebug"
                        ELSE "--device=git_master/cf_gwear_x86")
                  /\ \A i \in 2..Len(arguments) : inner[4 + i] = arguments[i]
       ELSE serial.executed = <<>> /\ serial.result = "error"

\* Handle returned a response for experimental create_phone_wear --daemon
\* create_phone_tablet: the watch preset's devices were forwarded, followed
\* by the two arguments after the preset name.
C21_Witness ==
  /\ serial.result = "ok"
  /\ serial.invocation =
       [command |-> "experimental",
        arguments |-> <<"create_phone_wear", "--daemon", "create_phone_tablet">>]
  /\ serial.executed =
       << << "cvd", "experimental", "serial_launch",
             "--device=git_master/cf_x86_64_phone-userdebug",
             "--device=git_master/cf_gwear_x86",
             "--daemon", "create_phone_tablet" >> >>

====
